---------------------------- MODULE Spec2Model ----------------------------
(***************************************************************************)
(* OpticsWorkbench, OpticalObject.py: the Sellmeier dispersion function    *)
(* refraction_index_from_sellmeier and the change handler                  *)
(* LensWorker.onChanged that keeps Material, Sellmeier and RefractionIndex *)
(* of a lens feature consistent.                                           *)
(*                                                                         *)
(* Numbers.  Python floats are held in fixed point:                        *)
(*   - B coefficients, the radicand and the refraction index are integers  *)
(*     in units of 1/Scale (1.0 is Scale);                                  *)
(*   - wavelengths are in units of 10 nm, so wavelength**2 and the C       *)
(*     coefficients are in units of 100 nm^2 (580 nm is 58, 580**2 is      *)
(*     3364).                                                              *)
(* A float division is a division rounded to the nearest unit, math.sqrt   *)
(* is the square root rounded down to a unit.                              *)
(*                                                                         *)
(* Control.  Every write of a property of the feature (fp.X = v) makes the *)
(* host call Proxy.onChanged(fp, 'X') synchronously; the calls in progress *)
(* are the frames of `stack`, the innermost first.                        *)
(***************************************************************************)
EXTENDS Integers, Sequences, FiniteSets, TLC

VARIABLES
    Material,         \* fp.Material
    Sellmeier,        \* fp.Sellmeier, a float list
    RefractionIndex,  \* fp.RefractionIndex
    update,           \* self.update: TRUE is Idle, FALSE is Propagating
    stack,            \* onChanged calls in progress, innermost first
    outcome,          \* how the last external change ended for its caller
    last,             \* history: the last external change and the guard it met
    direct,           \* history: Sellmeier was set by the user after Material
    pre,              \* history: the record just before the change in progress
    writes,           \* history: writes of each field by the last change
    query,            \* a direct call of refraction_index_from_sellmeier
    hasSellmeier,     \* hasattr(fp, 'Sellmeier')
    other,            \* a second lens feature with its own LensWorker
    theory            \* a theoretical lens feature with its TheoryLensWorker

vars == <<Material, Sellmeier, RefractionIndex, update, stack, outcome,
          last, direct, pre, writes, query, hasSellmeier, other, theory>>

lens == <<Material, Sellmeier, RefractionIndex, update, stack, outcome,
          last, direct, pre, writes>>

\* what the handler of the lens neither reads nor writes
rest == <<query, hasSellmeier, other, theory>>

-----------------------------------------------------------------------------
(* Fixed point arithmetic                                                  *)

Scale == 100 * 100

Abs(x) == IF x < 0 THEN 0 - x ELSE x

\* a / b on floats, b # 0: the quotient rounded to the nearest unit
FloatDiv(a, b) ==
    LET q == (2 * Abs(a) + Abs(b)) \div (2 * Abs(b))
    IN  IF (a < 0) = (b < 0) THEN q ELSE 0 - q

RECURSIVE Newton(_, _)
Newton(x, r) ==
    LET s == (r + x \div r) \div 2
    IN  IF s >= r THEN r ELSE Newton(x, s)

\* the largest r with r * r <= x
Isqrt(x) == IF x <= 0 THEN 0 ELSE Newton(x, x)

\* math.sqrt on a non-negative fixed point number
math_sqrt(x) == Isqrt(x * Scale)

-----------------------------------------------------------------------------
(* The Dispersion Engine                                                   *)

Returned(v) == [ok |-> TRUE, val |-> v, err |-> "none"]
Raised(e) == [ok |-> FALSE, val |-> 0, err |-> e]

\* the errors of an undefined result: a zero denominator, a negative radicand
DomainErrors == {"ZeroDivisionError", "ValueError: math domain error"}

\* the third term of line 194 divides by l**2 - c2
refraction_index_from_sellmeier_c2(wavelength, sellmeier) ==
    IF Len(sellmeier) # 6 THEN Raised("ValueError: unpack")
    ELSE
    LET b1 == sellmeier[1]
        b2 == sellmeier[2]
        b3 == sellmeier[3]
        c1 == sellmeier[4]
        c2 == sellmeier[5]
        c3 == sellmeier[6]
        l  == wavelength
    IN  IF l * l - c1 = 0 \/ l * l - c2 = 0
        THEN Raised("ZeroDivisionError")
        ELSE
        LET radicand == Scale + FloatDiv(b1 * (l * l), l * l - c1)
                              + FloatDiv(b2 * (l * l), l * l - c2)
                              + FloatDiv(b3 * (l * l), l * l - c2)
        IN  IF radicand < 0 THEN Raised("ValueError: math domain error")
            ELSE Returned(math_sqrt(radicand))

\* a term with b = 0 is taken as 0 and the square root of a negative
\* radicand as 0
refraction_index_from_sellmeier_unguarded(wavelength, sellmeier) ==
    IF Len(sellmeier) # 6 THEN Raised("ValueError: unpack")
    ELSE
    LET b1 == sellmeier[1]
        b2 == sellmeier[2]
        b3 == sellmeier[3]
        c1 == sellmeier[4]
        c2 == sellmeier[5]
        c3 == sellmeier[6]
        l  == wavelength
        term(b, c) == IF b = 0 \/ l * l - c = 0 THEN 0
                      ELSE FloatDiv(b * (l * l), l * l - c)
        radicand == Scale + term(b1, c1) + term(b2, c2) + term(b3, c3)
    IN  IF l * l - c1 = 0 /\ b1 # 0 THEN Raised("ZeroDivisionError")
        ELSE IF l * l - c2 = 0 /\ b2 # 0 THEN Raised("ZeroDivisionError")
        ELSE IF l * l - c3 = 0 /\ b3 # 0 THEN Raised("ZeroDivisionError")
        ELSE IF radicand < 0 THEN Returned(0)
        ELSE Returned(math_sqrt(radicand))

\* line 194 without the leading `1 +`
refraction_index_from_sellmeier_sum(wavelength, sellmeier) ==
    IF Len(sellmeier) # 6 THEN Raised("ValueError: unpack")
    ELSE
    LET b1 == sellmeier[1]
        b2 == sellmeier[2]
        b3 == sellmeier[3]
        c1 == sellmeier[4]
        c2 == sellmeier[5]
        c3 == sellmeier[6]
        l  == wavelength
    IN  IF l * l - c1 = 0 \/ l * l - c2 = 0 \/ l * l - c3 = 0
        THEN Raised("ZeroDivisionError")
        ELSE
        LET radicand == FloatDiv(b1 * (l * l), l * l - c1)
                        + FloatDiv(b2 * (l * l), l * l - c2)
                        + FloatDiv(b3 * (l * l), l * l - c3)
        IN  IF radicand < 0 THEN Raised("ValueError: math domain error")
            ELSE Returned(math_sqrt(radicand))

\* line 192 raises ValueError when the list does not unpack into six names;
\* in line 194 a float division by zero raises ZeroDivisionError (also 0/0)
\* at the first such term, and math.sqrt of a negative number raises
\* ValueError ("math domain error").
refraction_index_from_sellmeier(wavelength, sellmeier) ==
    IF Len(sellmeier) # 6 THEN Raised("ValueError: unpack")
    ELSE
    LET b1 == sellmeier[1]
        b2 == sellmeier[2]
        b3 == sellmeier[3]
        c1 == sellmeier[4]
        c2 == sellmeier[5]
        c3 == sellmeier[6]
        l  == wavelength
    IN  IF l * l - c1 = 0 \/ l * l - c2 = 0 \/ l * l - c3 = 0
        THEN Raised("ZeroDivisionError")
        ELSE
        LET radicand == Scale + FloatDiv(b1 * (l * l), l * l - c1)
                              + FloatDiv(b2 * (l * l), l * l - c2)
                              + FloatDiv(b3 * (l * l), l * l - c3)
        IN  IF radicand < 0 THEN Raised("ValueError: math domain error")
            ELSE Returned(math_sqrt(radicand))

-----------------------------------------------------------------------------
(* The Material Table                                                      *)

None == [none |-> TRUE, val |-> <<>>]
Coefficients(c) == [none |-> FALSE, val |-> c]

material_names ==
    {"?", "Vacuum", "Air", "Quartz", "PMMA (plexiglass)", "Window glass",
     "Polycarbonate"}

getMaterials ==
    [m \in material_names |->
        CASE m = "?" -> None
          [] m = "Vacuum" -> Coefficients(<<0, 0, 0, 0, 0, 0>>)
          [] m = "Air" -> Coefficients(<<5, 1, -2, 44, 175, 42584440>>)
          [] m = "Quartz" ->
                Coefficients(<<6962, 4079, 8975, 47, 135, 979340>>)
          [] m = "PMMA (plexiglass)" -> Coefficients(<<11819, 0, 0, 113, 0, 0>>)
          [] m = "Window glass" ->
                Coefficients(<<10396, 2318, 10105, 60, 200, 1035607>>)
          [] m = "Polycarbonate" -> Coefficients(<<14182, 0, 0, 213, 0, 0>>)]

-----------------------------------------------------------------------------
(* Inputs                                                                  *)

\* the reference wavelength of lines 99 and 102: 580 nm
ReferenceWavelength == 58

\* material arguments of the constructor; "" is its default
ConstructorMaterials == material_names \cup {""}

\* refraction indices a user enters: 1.0 (the constructor's default), 1.5
IndexInputs == {Scale, 15000}

\* coefficient lists a user enters: all zero; n^2 = 3; C1 = 580^2;
\* n^2 = -2; C2 = 580^2 with B2 = 0; an empty list; a list of three
SellmeierInputs ==
    { <<0, 0, 0, 0, 0, 0>>,
      <<10000, 0, 0, 1682, 0, 0>>,
      <<10000, 0, 0, 3364, 0, 0>>,
      <<-30000, 0, 0, 0, 0, 0>>,
      <<0, 0, 0, 0, 3364, 0>>,
      <<>>,
      <<10000, 0, 0>> }

\* properties of the feature that the reconciler does not dispatch on
OtherProperties == {"Base", "OpticalType"}

\* inputs of direct calls of the dispersion function
QueryWavelengths == {40, 58, 70}
QueryB == {-30000, 0, 10000}
QueryC == {0, 1600, 3364}
QuerySellmeiers ==
    { <<b[1], b[2], b[3], c[1], c[2], c[3]>> :
        b \in [1..3 -> QueryB], c \in [1..3 -> QueryC] }

-----------------------------------------------------------------------------
(* State                                                                   *)

NoChange == [prop |-> "none", accepted |-> FALSE]

NoSnapshot ==
    [Material |-> "?", Sellmeier |-> <<>>, RefractionIndex |-> 0,
     update |-> FALSE, last |-> NoChange, outcome |-> "none"]

Snapshot ==
    [Material |-> Material, Sellmeier |-> Sellmeier,
     RefractionIndex |-> RefractionIndex, update |-> update, last |-> last,
     outcome |-> outcome]

NoWrites == [prop \in {"Material", "Sellmeier", "RefractionIndex"} |-> 0]

\* no second lens, no theoretical lens
NoOther == [Material |-> "?", Sellmeier |-> <<>>, RefractionIndex |-> 0,
            update |-> FALSE, pc |-> "none"]
NoTheory == [FocalLength |-> 0, Base |-> <<>>, update |-> FALSE,
             pending |-> "none", explicit |-> 0, handled |-> "none"]

NoQuery == [state |-> "none", wavelength |-> 0, sellmeier |-> <<>>,
            result |-> Raised("none")]

\* the host calls Proxy.onChanged(fp, prop)
Frame(prop) == [prop |-> prop, pc |-> "L91"]

Top == Head(stack)

Quiescent == stack = <<>>

\* LensWorker.__init__ up to its last statement, `fp.Material = ...`: the
\* properties exist with the host's defaults (Material is the first entry of
\* the enumeration, Sellmeier is an empty list), update is True, Proxy is
\* set; the statement has stored the material and the host has just called
\* onChanged(fp, 'Material').
Init ==
    /\ \E material \in ConstructorMaterials :
          Material = IF material \in material_names THEN material ELSE "?"
    /\ Sellmeier = <<>>
    /\ RefractionIndex \in IndexInputs
    /\ update = TRUE
    /\ stack = <<Frame("Material")>>
    /\ outcome = "none"
    /\ last = [prop |-> "Material", accepted |-> TRUE]
    /\ direct = FALSE
    /\ pre = [Material |-> "?", Sellmeier |-> <<>>,
              RefractionIndex |-> RefractionIndex, update |-> TRUE,
              last |-> NoChange, outcome |-> "none"]
    /\ writes = [NoWrites EXCEPT !["Material"] = 1]
    /\ query = NoQuery
    /\ hasSellmeier = TRUE
    /\ other = NoOther
    /\ theory = NoTheory

-----------------------------------------------------------------------------
(* External changes: the user (or a script) sets a property of the feature *)
(* while no handler runs; the host stores the value and notifies.          *)

External(prop) ==
    /\ Quiescent
    /\ stack' = <<Frame(prop)>>
    /\ outcome' = "none"
    /\ last' = [prop |-> prop, accepted |-> update]
    /\ pre' = Snapshot
    /\ writes' = IF prop \in DOMAIN NoWrites
                 THEN [NoWrites EXCEPT ![prop] = 1] ELSE NoWrites
    /\ UNCHANGED <<update, rest>>

\* Material (line 56) is added after Sellmeier (line 46)
SetMaterial ==
    /\ hasSellmeier
    /\ External("Material")
    /\ Material' \in material_names
    /\ direct' = FALSE
    /\ UNCHANGED <<Sellmeier, RefractionIndex>>

SetSellmeier ==
    /\ hasSellmeier
    /\ External("Sellmeier")
    /\ Sellmeier' \in SellmeierInputs
    /\ direct' = TRUE
    /\ UNCHANGED <<Material, RefractionIndex>>

SetRefractionIndex ==
    /\ External("RefractionIndex")
    /\ RefractionIndex' \in IndexInputs
    /\ UNCHANGED <<Material, Sellmeier, direct>>

SetOther ==
    /\ \E prop \in OtherProperties : External(prop)
    /\ UNCHANGED <<Material, Sellmeier, RefractionIndex, direct>>

-----------------------------------------------------------------------------
(* LensWorker.onChanged, one step per property write                       *)

Running(pc) == stack # <<>> /\ Top.pc = pc

\* the innermost call moves on to pc
Goto(pc) ==
    /\ stack' = <<[Top EXCEPT !.pc = pc]>> \o Tail(stack)
    /\ UNCHANGED <<outcome, pre, writes>>

\* the innermost call writes a property: it moves on to pc and the host
\* calls onChanged for the property written
WriteAndGoto(prop, pc) ==
    /\ stack' = <<Frame(prop), [Top EXCEPT !.pc = pc]>> \o Tail(stack)
    /\ writes' = [writes EXCEPT ![prop] = @ + 1]
    /\ UNCHANGED <<outcome, pre>>

\* the innermost call returns
Return ==
    /\ stack' = Tail(stack)
    /\ outcome' = IF Tail(stack) = <<>> THEN "ok" ELSE outcome
    /\ pre' = IF Tail(stack) = <<>> THEN NoSnapshot ELSE pre
    /\ UNCHANGED writes

\* an exception leaves every call in progress and reaches the caller of the
\* external change
Raise(e) ==
    /\ stack' = <<>>
    /\ outcome' = e
    /\ pre' = NoSnapshot
    /\ UNCHANGED writes

\* line 94: hasattr(fp, 'Sellmeier'); __init__ adds the property (line 46)
\* before it sets Proxy (line 59)
hasattr_Sellmeier == hasSellmeier

\* the guard of line 91 left out: the notification is handled although a
\* propagation is in progress
Ignore_reenter ==
    /\ Running("L91")
    /\ ~update
    /\ update' = FALSE
    /\ Goto("L96")
    /\ UNCHANGED <<Material, Sellmeier, RefractionIndex, last, direct, rest>>

\* line 91, update is False: return
Ignore ==
    /\ Running("L91")
    /\ ~update
    /\ Return
    /\ UNCHANGED <<Material, Sellmeier, RefractionIndex, update, last,
                   direct, rest>>

\* lines 91 to 94, update is True
Enter ==
    /\ Running("L91")
    /\ update
    /\ update' = FALSE
    /\ IF hasattr_Sellmeier THEN Goto("L96") ELSE Return
    /\ UNCHANGED <<Material, Sellmeier, RefractionIndex, last, direct, rest>>

\* line 97 looks up a fixed key instead of fp.Material
MaterialSellmeier_key ==
    /\ Running("L96")
    /\ Top.prop = "Material"
    /\ LET sellmeier == getMaterials[IF Material = "?" THEN "?" ELSE "Vacuum"]
       IN  IF sellmeier.none
           THEN Raise("TypeError") /\ UNCHANGED Sellmeier
           ELSE Sellmeier' = sellmeier.val /\ WriteAndGoto("Sellmeier", "L99")
    /\ UNCHANGED <<Material, RefractionIndex, update, last, direct, rest>>

\* line 98 stores the coefficients with B1 and B2 exchanged
MaterialSellmeier_order ==
    /\ Running("L96")
    /\ Top.prop = "Material"
    /\ LET sellmeier == getMaterials[Material]
       IN  IF sellmeier.none
           THEN Raise("TypeError") /\ UNCHANGED Sellmeier
           ELSE /\ Sellmeier' = <<sellmeier.val[2], sellmeier.val[1]>>
                                    \o SubSeq(sellmeier.val, 3, 6)
                /\ WriteAndGoto("Sellmeier", "L99")
    /\ UNCHANGED <<Material, RefractionIndex, update, last, direct, rest>>

\* lines 96 to 98: the host rejects None for a float list with a TypeError
MaterialSellmeier ==
    /\ Running("L96")
    /\ Top.prop = "Material"
    /\ LET sellmeier == getMaterials[Material]
       IN  IF sellmeier.none
           THEN Raise("TypeError") /\ UNCHANGED Sellmeier
           ELSE Sellmeier' = sellmeier.val /\ WriteAndGoto("Sellmeier", "L99")
    /\ UNCHANGED <<Material, RefractionIndex, update, last, direct, rest>>

\* the computation wrapped in `try: ... except: pass`
WriteIndex_swallow(n, pc) ==
    IF n.ok
    THEN RefractionIndex' = n.val /\ WriteAndGoto("RefractionIndex", pc)
    ELSE Goto(pc) /\ UNCHANGED RefractionIndex

\* a computed index is written to fp.RefractionIndex, or the exception of
\* the computation leaves the handler
WriteIndex(n, pc) ==
    IF n.ok
    THEN RefractionIndex' = n.val /\ WriteAndGoto("RefractionIndex", pc)
    ELSE Raise(n.err) /\ UNCHANGED RefractionIndex

\* line 99 with `+=` for `=`
MaterialIndex_add ==
    /\ Running("L99")
    /\ LET n == refraction_index_from_sellmeier(ReferenceWavelength, Sellmeier)
       IN  WriteIndex(IF n.ok THEN Returned(RefractionIndex + n.val) ELSE n,
                      "L108")
    /\ UNCHANGED <<Material, Sellmeier, update, last, direct, rest>>

\* line 99
MaterialIndex ==
    /\ Running("L99")
    /\ WriteIndex(refraction_index_from_sellmeier(ReferenceWavelength,
                                                  Sellmeier), "L108")
    /\ UNCHANGED <<Material, Sellmeier, update, last, direct, rest>>

\* line 102 left out: a Sellmeier change recomputes nothing
SellmeierIndex_skip ==
    /\ Running("L96")
    /\ Top.prop = "Sellmeier"
    /\ Goto("L108")
    /\ UNCHANGED <<Material, Sellmeier, RefractionIndex, update, last,
                   direct, rest>>

\* lines 101 and 102 followed by `fp.Material = '?'`, as the branch of
\* RefractionIndex does
SellmeierIndex_demote ==
    /\ Running("L96")
    /\ Top.prop = "Sellmeier"
    /\ WriteIndex(refraction_index_from_sellmeier(ReferenceWavelength,
                                                  Sellmeier), "L108")
    /\ Material' = "?"
    /\ UNCHANGED <<Sellmeier, update, last, direct, rest>>

\* lines 101 and 102
SellmeierIndex ==
    /\ Running("L96")
    /\ Top.prop = "Sellmeier"
    /\ WriteIndex(refraction_index_from_sellmeier(ReferenceWavelength,
                                                  Sellmeier), "L108")
    /\ UNCHANGED <<Material, Sellmeier, update, last, direct, rest>>

\* lines 104 and 105
IndexMaterial ==
    /\ Running("L96")
    /\ Top.prop = "RefractionIndex"
    /\ Material' = "?"
    /\ WriteAndGoto("Material", "L106")
    /\ UNCHANGED <<Sellmeier, RefractionIndex, update, last, direct, rest>>

\* line 106
IndexSellmeier ==
    /\ Running("L106")
    /\ Sellmeier' = <<>>
    /\ WriteAndGoto("Sellmeier", "L108")
    /\ UNCHANGED <<Material, RefractionIndex, update, last, direct, rest>>

\* lines 96, 101, 104: none of the three properties
NoDispatch ==
    /\ Running("L96")
    /\ Top.prop \notin {"Material", "Sellmeier", "RefractionIndex"}
    /\ Goto("L108")
    /\ UNCHANGED <<Material, Sellmeier, RefractionIndex, update, last,
                   direct, rest>>

\* line 108 with update as an attribute of the class, shared by all lenses
Finish_shared ==
    /\ Running("L108")
    /\ update' = TRUE
    /\ other' = [other EXCEPT !.update = TRUE]
    /\ Return
    /\ UNCHANGED <<Material, Sellmeier, RefractionIndex, last, direct, query,
                   hasSellmeier, theory>>

\* line 108
Finish ==
    /\ Running("L108")
    /\ update' = TRUE
    /\ Return
    /\ UNCHANGED <<Material, Sellmeier, RefractionIndex, last, direct, rest>>

Next ==
    \/ SetMaterial
    \/ SetSellmeier
    \/ SetRefractionIndex
    \/ SetOther
    \/ Ignore
    \/ Enter
    \/ MaterialSellmeier
    \/ MaterialIndex
    \/ SellmeierIndex
    \/ IndexMaterial
    \/ IndexSellmeier
    \/ NoDispatch
    \/ Finish

Spec == Init /\ [][Next]_vars

-----------------------------------------------------------------------------
(* Direct calls of the dispersion function                                 *)

InitEngine ==
    /\ Material = "?"
    /\ Sellmeier = <<>>
    /\ RefractionIndex = Scale
    /\ update = TRUE
    /\ stack = <<>>
    /\ outcome = "none"
    /\ last = NoChange
    /\ direct = FALSE
    /\ pre = NoSnapshot
    /\ writes = NoWrites
    /\ hasSellmeier = TRUE
    /\ other = NoOther
    /\ theory = NoTheory
    /\ \E w \in QueryWavelengths, s \in QuerySellmeiers :
          query = [state |-> "called", wavelength |-> w, sellmeier |-> s,
                   result |-> Raised("none")]

Evaluate ==
    /\ query.state = "called"
    /\ query' = [query EXCEPT
                   !.state = "done",
                   !.result = refraction_index_from_sellmeier(
                                  query.wavelength, query.sellmeier)]
    /\ UNCHANGED <<lens, hasSellmeier, other, theory>>

NextEngine == Evaluate

SpecEngine == InitEngine /\ [][NextEngine]_vars

-----------------------------------------------------------------------------
(* A lens feature that does not have all its properties yet.  The host     *)
(* rebuilds a saved feature property by property; the LensWorker is        *)
(* attached with the attributes it was saved with (update is True, line    *)
(* 58) and is notified of changes before Sellmeier exists.  This is the    *)
(* case line 94 tests for.                                                 *)

InitLoad ==
    /\ Material = "?"
    /\ Sellmeier = <<>>
    /\ RefractionIndex \in IndexInputs
    /\ update = TRUE
    /\ stack = <<>>
    /\ outcome = "none"
    /\ last = NoChange
    /\ direct = FALSE
    /\ pre = NoSnapshot
    /\ writes = NoWrites
    /\ query = NoQuery
    /\ hasSellmeier = FALSE
    /\ other = NoOther
    /\ theory = NoTheory

\* the host adds Sellmeier, and Material after it, as lines 46 and 56 do
AddSellmeier ==
    /\ Quiescent
    /\ ~hasSellmeier
    /\ hasSellmeier' = TRUE
    /\ UNCHANGED <<lens, query, other, theory>>

NextLoad ==
    \/ AddSellmeier
    \/ SetMaterial
    \/ SetSellmeier
    \/ SetRefractionIndex
    \/ SetOther
    \/ Ignore
    \/ Enter
    \/ MaterialSellmeier
    \/ MaterialIndex
    \/ SellmeierIndex
    \/ IndexMaterial
    \/ IndexSellmeier
    \/ NoDispatch
    \/ Finish

SpecLoad == InitLoad /\ [][NextLoad]_vars

-----------------------------------------------------------------------------
(* Two lenses in one document: `other` is a second LensWorker with its own *)
(* feature; its handler is the same code, taken in two steps               *)

\* materials the other lens is given
OtherMaterials == {"?", "Vacuum", "Quartz"}

\* both constructors have stored their material and the host has called
\* onChanged(fp, 'Material') of each lens
InitTwo ==
    /\ \E material \in ConstructorMaterials :
          Material = IF material \in material_names THEN material ELSE "?"
    /\ Sellmeier = <<>>
    /\ RefractionIndex \in IndexInputs
    /\ update = TRUE
    /\ stack = <<Frame("Material")>>
    /\ outcome = "none"
    /\ last = [prop |-> "Material", accepted |-> TRUE]
    /\ direct = FALSE
    /\ pre = [Material |-> "?", Sellmeier |-> <<>>,
              RefractionIndex |-> RefractionIndex, update |-> TRUE,
              last |-> NoChange, outcome |-> "none"]
    /\ writes = [NoWrites EXCEPT !["Material"] = 1]
    /\ query = NoQuery
    /\ hasSellmeier = TRUE
    /\ \E material \in OtherMaterials :
          other = [Material |-> material, Sellmeier |-> <<>>,
                   RefractionIndex |-> Scale, update |-> TRUE, pc |-> "L91"]
    /\ theory = NoTheory

\* the user sets Material of the other lens; the host notifies its worker
OtherSetMaterial ==
    /\ other.pc = "none"
    /\ \E material \in OtherMaterials :
          other' = [other EXCEPT !.Material = material, !.pc = "L91"]
    /\ UNCHANGED <<lens, query, hasSellmeier, theory>>

\* line 91 of the other lens, its update is False: return
OtherIgnore ==
    /\ other.pc = "L91"
    /\ ~other.update
    /\ other' = [other EXCEPT !.pc = "none"]
    /\ UNCHANGED <<lens, query, hasSellmeier, theory>>

\* lines 91 to 94 of the other lens, its update is True
OtherEnter ==
    /\ other.pc = "L91"
    /\ other.update
    /\ other' = [other EXCEPT !.update = FALSE, !.pc = "L96"]
    /\ UNCHANGED <<lens, query, hasSellmeier, theory>>

\* lines 96 to 108 of the other lens for prop == 'Material'; the nested
\* notifications of its two writes meet update = False and return; an
\* exception leaves the handler before line 108
OtherMaterial ==
    /\ other.pc = "L96"
    /\ LET sellmeier == getMaterials[other.Material]
           n == refraction_index_from_sellmeier(ReferenceWavelength,
                                                sellmeier.val)
       IN  other' =
             IF sellmeier.none THEN [other EXCEPT !.pc = "none"]
             ELSE IF ~n.ok
             THEN [other EXCEPT !.Sellmeier = sellmeier.val, !.pc = "none"]
             ELSE [other EXCEPT !.Sellmeier = sellmeier.val,
                                !.RefractionIndex = n.val,
                                !.update = TRUE, !.pc = "none"]
    /\ UNCHANGED <<lens, query, hasSellmeier, theory>>

NextTwo ==
    \/ SetMaterial
    \/ SetSellmeier
    \/ SetRefractionIndex
    \/ SetOther
    \/ Ignore
    \/ Enter
    \/ MaterialSellmeier
    \/ MaterialIndex
    \/ SellmeierIndex
    \/ IndexMaterial
    \/ IndexSellmeier
    \/ NoDispatch
    \/ Finish
    \/ OtherSetMaterial
    \/ OtherIgnore
    \/ OtherEnter
    \/ OtherMaterial

SpecTwo == InitTwo /\ [][NextTwo]_vars

-----------------------------------------------------------------------------
(* TheoryLensWorker: a theoretical lens with its focal length              *)

\* focal lengths a user enters; 50 is the constructor's default
FocalLengthInputs == {-100, -50, 0, 10, 25, 50, 100, 200}

\* lists of objects a user links as Base
BaseInputs == {<<>>, <<"Lens">>, <<"Body">>, <<"Lens", "Body">>}

\* properties of the feature other than FocalLength and Base
TheoryOtherProperties == {"OpticalType", "Proxy"}

\* TheoryLensWorker.__init__: update is False (line 117) and stays so
InitTheory ==
    /\ Material = "?"
    /\ Sellmeier = <<>>
    /\ RefractionIndex = Scale
    /\ update = TRUE
    /\ stack = <<>>
    /\ outcome = "none"
    /\ last = NoChange
    /\ direct = FALSE
    /\ pre = NoSnapshot
    /\ writes = NoWrites
    /\ query = NoQuery
    /\ hasSellmeier = TRUE
    /\ other = NoOther
    /\ \E FocalLength \in FocalLengthInputs, base \in BaseInputs :
          theory = [FocalLength |-> FocalLength, Base |-> base,
                    update |-> FALSE, pending |-> "none",
                    explicit |-> FocalLength, handled |-> "none"]

\* the user sets FocalLength; the host stores it and notifies
TheorySetFocalLength ==
    /\ theory.pending = "none"
    /\ \E FocalLength \in FocalLengthInputs :
          theory' = [theory EXCEPT !.FocalLength = FocalLength,
                                   !.explicit = FocalLength,
                                   !.pending = "FocalLength"]
    /\ UNCHANGED <<lens, query, hasSellmeier, other>>

\* the user sets Base; the host stores it and notifies
TheorySetBase ==
    /\ theory.pending = "none"
    /\ \E base \in BaseInputs :
          theory' = [theory EXCEPT !.Base = base, !.pending = "Base"]
    /\ UNCHANGED <<lens, query, hasSellmeier, other>>

\* the host notifies of a change of another property
TheoryNotify ==
    /\ theory.pending = "none"
    /\ \E prop \in TheoryOtherProperties :
          theory' = [theory EXCEPT !.pending = prop]
    /\ UNCHANGED <<lens, query, hasSellmeier, other>>

\* lines 129 to 134 without the guard of line 130
TheoryOnChanged_unguarded ==
    /\ theory.pending # "none"
    /\ theory' = [theory EXCEPT !.update = TRUE, !.pending = "none",
                                 !.handled = theory.pending]
    /\ UNCHANGED <<lens, query, hasSellmeier, other>>

\* TheoryLensWorker.onChanged, lines 129 to 134: return when update is
\* False; else update is set to False and then to True
TheoryOnChanged ==
    /\ theory.pending # "none"
    /\ theory' = [theory EXCEPT
                    !.update = IF ~theory.update THEN theory.update ELSE TRUE,
                    !.pending = "none",
                    !.handled = theory.pending]
    /\ UNCHANGED <<lens, query, hasSellmeier, other>>

NextTheory ==
    \/ TheorySetFocalLength
    \/ TheorySetBase
    \/ TheoryNotify
    \/ TheoryOnChanged

SpecTheory == InitTheory /\ [][NextTheory]_vars

TypeOK ==
    /\ Material \in material_names
    /\ update \in BOOLEAN
    /\ direct \in BOOLEAN
    /\ Len(stack) <= 2
    /\ outcome \in {"none", "ok", "TypeError", "ValueError: unpack"}
                    \cup DomainErrors

-----------------------------------------------------------------------------
(* Properties                                                              *)

Fields == <<Material, Sellmeier, RefractionIndex>>

\* the external change in progress reaches its caller in this step
Completes == stack # <<>> /\ stack' = <<>>

\* the Sellmeier formula written as a sum over i = 1..3
SellmeierTerm(l, s, i) == FloatDiv(s[i] * (l * l), l * l - s[i + 3])
Singular(l, s) == \E i \in 1..3 : l * l = s[i + 3]
Radicand(l, s) ==
    Scale + SellmeierTerm(l, s, 1) + SellmeierTerm(l, s, 2)
          + SellmeierTerm(l, s, 3)
Defined(l, s) == Len(s) = 6 /\ ~Singular(l, s) /\ Radicand(l, s) >= 0

\* RefractionIndex is the dispersion function's result for Sellmeier at 580 nm
IndexFromSellmeier ==
    LET n == refraction_index_from_sellmeier(ReferenceWavelength, Sellmeier)
    IN  n.ok /\ RefractionIndex = n.val

\* C1: a notification that meets update = False is ignored: the step that
\* handles it only returns, it changes no field and not the guard; one
\* external change, its own write included, writes each of Material,
\* Sellmeier and RefractionIndex at most once and at most two calls of
\* onChanged are in progress.
C1_NestedNotificationIgnored ==
    /\ [](Len(stack) <= 2 /\ \A prop \in DOMAIN writes : writes[prop] <= 1)
    /\ [][(Running("L91") /\ ~update) =>
            /\ UNCHANGED <<Fields, update, writes>>
            /\ stack' = Tail(stack)]_vars

\* C1 witness: a Material change has been handled to the end; the two
\* notifications of its own writes were met with update = False.
C1_Witness ==
    /\ Quiescent
    /\ last = [prop |-> "Material", accepted |-> TRUE]
    /\ outcome = "ok"
    /\ writes = [Material |-> 1, Sellmeier |-> 1, RefractionIndex |-> 1]

\* C2: when a Material or Sellmeier change whose dispersion computation
\* failed has reached its caller, the guard is Idle again (update = True).
C2_GuardIdleAfterFailure ==
    (Quiescent /\ last.prop \in {"Material", "Sellmeier"}
       /\ outcome \in DomainErrors) => update = TRUE

\* C3: after any sequence of external changes, once a direct change of
\* RefractionIndex has been handled, Material is "?" and Sellmeier is empty.
C3_IndexEditCollapses ==
    (Quiescent /\ last.prop = "RefractionIndex") =>
        (Material = "?" /\ Sellmeier = <<>>)

\* C4: a change of Material to the sentinel "?" is handled without error
\* and leaves RefractionIndex at the value it had.
C4_SentinelSkipsComputation ==
    [][(Completes /\ last.prop = "Material" /\ Material = "?") =>
         (outcome' = "ok" /\ RefractionIndex' = pre.RefractionIndex)]_vars

C7_RoundTrip ==
    (Quiescent /\ last = [prop |-> "Material", accepted |-> TRUE]
       /\ Material # "?") =>
        /\ Len(Sellmeier) = 6
        /\ \A i \in 1..6 : Sellmeier[i] = getMaterials[Material].val[i]

\* C7 witness: Quartz has been selected on an Idle lens.
C7_Witness ==
    /\ Quiescent
    /\ last = [prop |-> "Material", accepted |-> TRUE]
    /\ outcome = "ok"
    /\ Material = "Quartz"

\* C8: when a Material change to a catalog material, or a Sellmeier change
\* to six coefficients for which the formula is defined, met with the guard
\* Idle, has been handled, RefractionIndex is
\* sqrt(1 + sum of Bi * 580^2 / (580^2 - Ci)) for the Sellmeier held.
C8_IndexIsSellmeierFormula ==
    (/\ Quiescent
     /\ last.accepted
     /\ \/ last.prop = "Material" /\ Material # "?"
        \/ last.prop = "Sellmeier" /\ Defined(ReferenceWavelength, Sellmeier))
    =>
    (/\ Defined(ReferenceWavelength, Sellmeier)
     /\ RefractionIndex = math_sqrt(Radicand(ReferenceWavelength, Sellmeier)))

\* C8 witness: Window glass has been selected on an Idle lens.
C8_Witness ==
    /\ Quiescent
    /\ last = [prop |-> "Material", accepted |-> TRUE]
    /\ Material = "Window glass"
    /\ RefractionIndex = 15171

\* C9: when a Material change to a catalog material completes right after
\* a completed Material change to the same material, Sellmeier,
\* RefractionIndex and the guard are as the first change left them.
C9_MaterialIdempotent ==
    [][(/\ Completes
        /\ last.prop = "Material"
        /\ pre.last.prop = "Material"
        /\ pre.Material = Material
        /\ Material # "?")
       =>
       (/\ Sellmeier' = pre.Sellmeier
        /\ RefractionIndex' = pre.RefractionIndex
        /\ update' = pre.update)]_vars

\* C9 witness: the second of two accepted selections of Quartz has done
\* its writes and is about to return.
C9_Witness ==
    /\ Running("L108")
    /\ Len(stack) = 1
    /\ last = [prop |-> "Material", accepted |-> TRUE]
    /\ pre.last = [prop |-> "Material", accepted |-> TRUE]
    /\ pre.Material = "Quartz"
    /\ Material = "Quartz"
    /\ writes["Sellmeier"] = 1
    /\ writes["RefractionIndex"] = 1

\* C10: a call of the dispersion function with wavelength^2 equal to C1, C2
\* or C3, or with a negative radicand, raises an error and returns no value.
C10_UndefinedRaises ==
    (query.state = "done"
       /\ \/ Singular(query.wavelength, query.sellmeier)
          \/ Radicand(query.wavelength, query.sellmeier) < 0)
    =>
    (~query.result.ok /\ query.result.err \in DomainErrors)

\* C10 witness: wavelength^2 = C2 with B2 = 0 has raised.
C10_Witness ==
    /\ query.state = "done"
    /\ query.wavelength * query.wavelength = query.sellmeier[5]
    /\ query.sellmeier[2] = 0
    /\ ~Singular(query.wavelength,
                 [query.sellmeier EXCEPT ![5] = 0])
    /\ ~query.result.ok

\* C10 witness, second case: a negative radicand has raised.
C10_WitnessNegative ==
    /\ query.state = "done"
    /\ ~Singular(query.wavelength, query.sellmeier)
    /\ Radicand(query.wavelength, query.sellmeier) < 0
    /\ query.result.err = "ValueError: math domain error"

\* the computation of the change handled last is undefined: the sentinel
\* has no coefficients, or the formula is not defined for the coefficients
Undefined ==
    \/ /\ last.prop = "Material"
       /\ \/ getMaterials[Material].none
          \/ ~Defined(ReferenceWavelength, getMaterials[Material].val)
    \/ /\ last.prop = "Sellmeier"
       /\ ~Defined(ReferenceWavelength, Sellmeier)

\* C11: when a Material or Sellmeier change whose computation is undefined,
\* met with the guard Idle, has been handled, its caller has got an error:
\* onChanged did not return normally.
C11_FailureReachesCaller ==
    (Quiescent /\ last.accepted /\ Undefined) =>
        outcome \in DomainErrors \cup {"TypeError", "ValueError: unpack"}

\* C11 witness: coefficients with C1 = 580^2 were set on an Idle lens and
\* the division by zero has reached the caller.
C11_Witness ==
    /\ Quiescent
    /\ last = [prop |-> "Sellmeier", accepted |-> TRUE]
    /\ Sellmeier = <<10000, 0, 0, 3364, 0, 0>>
    /\ outcome = "ZeroDivisionError"

\* C12: the dispersion function gives exactly 1 for all-zero coefficients
\* at 580 nm, and when Vacuum has been selected on an Idle lens Sellmeier
\* is (0, 0, 0, 0, 0, 0) and RefractionIndex is exactly 1.
C12_VacuumIsOne ==
    /\ refraction_index_from_sellmeier(ReferenceWavelength,
                                       <<0, 0, 0, 0, 0, 0>>) = Returned(Scale)
    /\ (Quiescent /\ last = [prop |-> "Material", accepted |-> TRUE]
          /\ Material = "Vacuum") =>
         (/\ outcome = "ok"
          /\ Sellmeier = <<0, 0, 0, 0, 0, 0>>
          /\ RefractionIndex = Scale)

\* C12 witness: Vacuum has been selected on an Idle lens that held the
\* user's coefficients with n^2 = 3.
C12_Witness ==
    /\ Running("L108")
    /\ Len(stack) = 1
    /\ last = [prop |-> "Material", accepted |-> TRUE]
    /\ Material = "Vacuum"
    /\ pre.Sellmeier = <<10000, 0, 0, 1682, 0, 0>>
    /\ pre.RefractionIndex = 17320
    /\ RefractionIndex = Scale

\* C13: while a direct Sellmeier change, met with the guard Idle, is
\* handled, no step changes Material or Sellmeier; the handler writes
\* neither of them, and RefractionIndex at most once.
C13_SellmeierEditKeepsMaterial ==
    /\ [](last = [prop |-> "Sellmeier", accepted |-> TRUE] =>
            /\ writes["Material"] = 0
            /\ writes["Sellmeier"] = 1
            /\ writes["RefractionIndex"] <= 1
            /\ stack # <<>> => Material = pre.Material)
    /\ [][(stack # <<>> /\ last = [prop |-> "Sellmeier", accepted |-> TRUE])
            => UNCHANGED <<Material, Sellmeier>>]_vars

\* C13 witness: coefficients were entered on an Idle lens that shows Quartz;
\* the index has been recomputed and Material is still Quartz.
C13_Witness ==
    /\ Quiescent
    /\ last = [prop |-> "Sellmeier", accepted |-> TRUE]
    /\ outcome = "ok"
    /\ Material = "Quartz"
    /\ Sellmeier = <<10000, 0, 0, 1682, 0, 0>>
    /\ RefractionIndex = 17320
    /\ writes = [Material |-> 0, Sellmeier |-> 1, RefractionIndex |-> 1]

\* C14: every notification met with the guard Idle that raises no error
\* ends with the guard Idle, whatever the property and also when the
\* feature has no Sellmeier property; a notification of a property other
\* than Material, Sellmeier and RefractionIndex writes no field.
C14_ReturnsToIdle ==
    /\ (Quiescent /\ last.accepted /\ outcome = "ok") => update = TRUE
    /\ (last.prop \notin DOMAIN NoWrites) =>
          /\ writes = NoWrites
          /\ stack # <<>> =>
                Fields = <<pre.Material, pre.Sellmeier, pre.RefractionIndex>>

\* C15: a notification delivered to TheoryLensWorker.onChanged writes no
\* property of the feature and leaves the update flag as it was;
\* FocalLength is always the value set last.
C15_TheoryLensNotReconciled ==
    /\ [](theory.FocalLength = theory.explicit)
    /\ [][(theory.pending # "none" /\ theory'.pending = "none") =>
            /\ theory'.FocalLength = theory.FocalLength
            /\ theory'.Base = theory.Base
            /\ theory'.update = theory.update]_vars

\* C15 witness: the notification of a FocalLength set by the user has been
\* handled and FocalLength is the value set.
C15_Witness ==
    /\ theory.pending = "none"
    /\ theory.handled = "FocalLength"
    /\ theory.FocalLength = 200
    /\ theory.explicit = 200
    /\ theory.Base = <<"Lens", "Body">>
    /\ ~theory.update

\* the other lens is in the middle of a propagation, or has been left
\* Locked by a failure
OtherBusy == ~other.update

\* C16: the guard belongs to one lens. No step of a lens's handler changes
\* a field or the guard of the other lens; a notification that meets the
\* lens's own update = True is accepted whatever the guard of the other
\* lens is; and an accepted change is reconciled to the result it has for
\* a single lens: a Material change that returns leaves the catalog's
\* coefficients and their index, a Sellmeier change that returns the index
\* of the coefficients, a RefractionIndex change the sentinel and an empty
\* list, each with update = True.
C16_GuardPerLens ==
    /\ [][lens' # lens => other' = other]_vars
    /\ [][(Running("L91") /\ update /\ lens' # lens) =>
            (~update' /\ stack' # <<>> /\ Top'.pc = "L96")]_vars
    /\ []((Quiescent /\ last.accepted /\ outcome = "ok") =>
            /\ update
            /\ last.prop = "Material" =>
                 /\ ~getMaterials[Material].none
                 /\ Sellmeier = getMaterials[Material].val
                 /\ IndexFromSellmeier
            /\ last.prop = "Sellmeier" => IndexFromSellmeier
            /\ last.prop = "RefractionIndex" =>
                 (Material = "?" /\ Sellmeier = <<>>))

\* C16 witness: a Material change of one lens has been accepted and
\* reconciled while the other lens is inside its own propagation.
C16_Witness ==
    /\ Quiescent
    /\ last = [prop |-> "Material", accepted |-> TRUE]
    /\ outcome = "ok"
    /\ Material = "Quartz"
    /\ Sellmeier = getMaterials["Quartz"].val
    /\ IndexFromSellmeier
    /\ update
    /\ OtherBusy
    /\ other.pc = "L96"
    /\ other.Material = "Quartz"

=============================================================================
